---------------------------- MODULE Spec2Model ----------------------------
(***************************************************************************)
(* Model of the OpenSanctions batch search pipeline                         *)
(* (src/opensanctions_batch_search.py).                                     *)
(*                                                                          *)
(* Text is modelled as a sequence of one-character strings, so that         *)
(* str.strip, str.lower and urllib.parse.quote_plus are computed and not    *)
(* assumed.  A page body is a sequence of tokens: anchors (with their href  *)
(* and inner markup) and plain text runs.  Every anchor of a page is        *)
(* well-formed (closed by its own </a>).                                    *)
(***************************************************************************)
EXTENDS Integers, Sequences, FiniteSets, TLC

(***************************************************************************)
(* Bounds of the model.                                                     *)
(***************************************************************************)
MaxPageLen == 4      \* tokens of a page body
MaxCap == 3          \* largest --max-links explored for the extractor
MaxValues == 3       \* names handed to unique_preserve_order
MaxQueries == 2      \* names of one batch run
MaxBodyLen == 3      \* tokens of a page body handed to the classifier
MaxCsvRows == 3      \* lines after the header of a CSV file, every mix of lines
MaxExtraRows == 1    \* blank rows of a CSV file beyond those a notice lists
MaxRuns == 2         \* worker threads the GUI starts
MaxDialogs == 2      \* message boxes of the GUI open at once

(***************************************************************************)
(* Characters and strings.                                                  *)
(***************************************************************************)
\* A lone surrogate, as os.fsdecode leaves in sys.argv for a byte that is
\* not UTF-8: str.encode("utf-8") raises UnicodeEncodeError on it.
SURROGATE == "\\udcff"

LowerChar(c) ==
    IF c = "A" THEN "a" ELSE IF c = "B" THEN "b" ELSE c

lower(s) == [k \in 1..Len(s) |-> LowerChar(s[k])]

IsSpace(c) == c = " "

RECURSIVE lstrip(_)
lstrip(s) ==
    IF s # <<>> /\ IsSpace(Head(s)) THEN lstrip(Tail(s)) ELSE s

RECURSIVE rstrip(_)
rstrip(s) ==
    IF s # <<>> /\ IsSpace(s[Len(s)]) THEN rstrip(SubSeq(s, 1, Len(s) - 1)) ELSE s

strip(s) == rstrip(lstrip(s))

\* str.encode("utf-8") succeeds unless the string holds a lone surrogate.
Encodable(s) == \A k \in 1..Len(s) : s[k] # SURROGATE

QuoteChar(c) == IF c = " " THEN "+" ELSE c

\* urllib.parse.quote_plus on an encodable string: a space becomes "+".
quote_plus(s) == [k \in 1..Len(s) |-> QuoteChar(s[k])]

BASE_SEARCH_URL == "https://www.opensanctions.org/search/?q="

\* BASE_SEARCH_URL.format(query=quote_plus(name))
SearchUrl(name) == [base |-> BASE_SEARCH_URL, query |-> quote_plus(name)]

NO_MATCH_MARKER == "No matching entities were found."

(***************************************************************************)
(* Page markup.                                                             *)
(***************************************************************************)
ENTITY_PREFIX == "/entities/"
HOST == "https://www.opensanctions.org"

\* Inner markup of an anchor: characters, tags and character references.
IsTag(x) == x \in {"<b>", "</b>"}

Unescape1(x) ==
    IF x = "&#65;" THEN "A" ELSE IF x = "&#32;" THEN " " ELSE x

\* re.sub(r"<[^>]+>", "", raw_title)
StripTags(raw) == SelectSeq(raw, LAMBDA x : ~IsTag(x))

\* html.unescape
unescape(s) == [k \in 1..Len(s) |-> Unescape1(s[k])]

\* html.unescape(re.sub(r"<[^>]+>", "", raw_title)).strip()
TitleOf(raw) == strip(unescape(StripTags(raw)))

Anchor(prefix, rest, inner) ==
    [tag |-> "a", href |-> <<prefix, rest>>, inner |-> inner]

Text(s) == [tag |-> "text", href |-> <<"", "">>, inner |-> <<s>>]

RawTitles ==
    { <<"A">>, <<"<b>", "a", "</b>", " ">>, <<"&#32;">> }

EntityAnchors ==
    { Anchor(ENTITY_PREFIX, q, r) : q \in {"Q1", "Q2"}, r \in RawTitles }

\* What a page body is made of for the extractor: entity anchors and an
\* anchor the pattern does not match.
Tokens == EntityAnchors \cup { Anchor("/datasets/", "x", <<"A">>) }

RECURSIVE SeqsUpTo(_, _)
SeqsUpTo(S, n) ==
    IF n = 0 THEN { <<>> }
    ELSE LET shorter == SeqsUpTo(S, n - 1)
         IN  shorter \cup { Append(s, x) : s \in { t \in shorter : Len(t) = n - 1 }, x \in S }

\* NO_MATCH_MARKER in page: the literal anywhere in the body, inside an
\* anchor's text as well as outside.
MarkerIn(page) ==
    \E k \in 1..Len(page) :
        \E j \in 1..Len(page[k].inner) : page[k].inner[j] = NO_MATCH_MARKER

\* <a[^>]+href="(/entities/[^"]+)"[^>]*>(.*?)</a>
IsEntityAnchor(tok) ==
    /\ tok.tag = "a"
    /\ tok.href[1] = ENTITY_PREFIX
    /\ tok.href[2] # ""

\* pattern.findall(html_text): the (rel_url, raw_title) pairs in document order
findall(page) ==
    LET hits == SelectSeq(page, IsEntityAnchor)
    IN  [k \in 1..Len(hits) |-> <<hits[k].href, hits[k].inner>>]

AbsUrl(rel_url) == [host |-> HOST, path |-> rel_url]

EntityKey(m) == <<AbsUrl(m[1]), lower(TitleOf(m[2]))>>

EntityOf(m) == <<TitleOf(m[2]), AbsUrl(m[1])>>

\* The cap test written len(entities) > max_links: one entry too many.
RECURSIVE extract_loop_off_by_one(_, _, _, _)
extract_loop_off_by_one(matches, entities, seen, max_links) ==
    IF matches = <<>> THEN entities
    ELSE IF EntityKey(Head(matches)) \in seen
         THEN extract_loop_off_by_one(Tail(matches), entities, seen, max_links)
         ELSE LET grown == Append(entities, EntityOf(Head(matches)))
              IN  IF Len(grown) > max_links THEN grown
                  ELSE extract_loop_off_by_one(Tail(matches), grown,
                                               seen \cup {EntityKey(Head(matches))},
                                               max_links)

\* The for loop of extract_entities over the remaining matches.
RECURSIVE extract_loop(_, _, _, _)
extract_loop(matches, entities, seen, max_links) ==
    IF matches = <<>> THEN entities
    ELSE IF EntityKey(Head(matches)) \in seen
         THEN extract_loop(Tail(matches), entities, seen, max_links)
         ELSE LET grown == Append(entities, EntityOf(Head(matches)))
              IN  IF Len(grown) >= max_links THEN grown
                  ELSE extract_loop(Tail(matches), grown,
                                    seen \cup {EntityKey(Head(matches))}, max_links)

extract_entities(html_text, max_links) ==
    extract_loop(findall(html_text), <<>>, {}, max_links)

(***************************************************************************)
(* Deduplication of names.                                                  *)
(***************************************************************************)
DedupKey(value) == lower(strip(value))

\* The loop keyed by the value itself, not by its trimmed lower-case form.
RECURSIVE unique_loop_exact(_, _, _)
unique_loop_exact(values, seen, out) ==
    IF values = <<>> THEN out
    ELSE IF Head(values) \in seen
         THEN unique_loop_exact(Tail(values), seen, out)
         ELSE unique_loop_exact(Tail(values), seen \cup {Head(values)},
                                Append(out, Head(values)))

RECURSIVE unique_loop(_, _, _)
unique_loop(values, seen, out) ==
    IF values = <<>> THEN out
    ELSE IF DedupKey(Head(values)) \in seen
         THEN unique_loop(Tail(values), seen, out)
         ELSE unique_loop(Tail(values), seen \cup {DedupKey(Head(values))},
                          Append(out, Head(values)))

unique_preserve_order(values) == unique_loop(values, {}, <<>>)


(***************************************************************************)
(* Name sources.                                                            *)
(***************************************************************************)
\* An input file: path "" when the option is not given; readable is whether
\* open() and the UTF-8 decoding of its content succeed.
NoFile == [path |-> "", readable |-> FALSE, content |-> <<>>]

File(path, content) == [path |-> path, readable |-> TRUE, content |-> content]

Unreadable(path) == [path |-> path, readable |-> FALSE, content |-> <<>>]

\* names.extend(name.strip() for name in args.name if name.strip())
load_names_from_args(raw) ==
    LET kept == SelectSeq(raw, LAMBDA n : strip(n) # <<>>)
    IN  [k \in 1..Len(kept) |-> strip(kept[k])]

\* content: the lines of the file
load_names_from_txt(content) ==
    LET kept == SelectSeq(content, LAMBDA line : strip(line) # <<>>)
    IN  [k \in 1..Len(kept) |-> strip(kept[k])]

\* csv.DictReader: content is the sequence of parsed lines, each a sequence
\* of cells; a blank line parses to the empty sequence.  The first line is
\* the header, blank or not; of the later lines the blank ones are not
\* yielded.
CsvRecords(lines) == SelectSeq(lines, LAMBDA line : line # <<>>)

CsvHeader(content) == IF content = <<>> THEN <<>> ELSE Head(content)

CsvRows(content) ==
    IF content = <<>> THEN <<>> ELSE CsvRecords(Tail(content))

\* (row.get(col) or ""): the cell under the last header field named col, ""
\* when there is no such field or the row is too short to reach it.
CsvCell(header, row, col) ==
    LET at == { k \in 1..Len(header) : header[k] = col /\ k <= Len(row) }
    IN  IF at = {} THEN <<>>
        ELSE row[CHOOSE k \in at : \A j \in at : j <= k]

\* " ".join(part for part in (first, last) if part).strip()
JoinParts(first, last) ==
    IF first # <<>> /\ last # <<>> THEN first \o <<" ">> \o last
    ELSE IF first # <<>> THEN first
    ELSE last

CsvFullName(header, row, name_col, first_col, last_col) ==
    IF name_col # ""
    THEN strip(CsvCell(header, row, name_col))
    ELSE strip(JoinParts(strip(CsvCell(header, row, first_col)),
                         strip(CsvCell(header, row, last_col))))

\* enumerate(reader, start=1): the rows numbered from 1.
load_names_from_csv_from_one(content, name_col, first_col, last_col) ==
    LET rows == CsvRows(content)
        full(k) == CsvFullName(CsvHeader(content), rows[k], name_col, first_col, last_col)
        idx == [k \in 1..Len(rows) |-> k]
        named == SelectSeq(idx, LAMBDA k : full(k) # <<>>)
        blank == SelectSeq(idx, LAMBDA k : full(k) = <<>>)
    IN  [names |-> [j \in 1..Len(named) |-> full(named[j])],
         skipped_rows |-> [j \in 1..Len(blank) |-> blank[j]]]

\* The rows (numbered from 2 by enumerate) with their names.
load_names_from_csv(content, name_col, first_col, last_col) ==
    LET rows == CsvRows(content)
        full(k) == CsvFullName(CsvHeader(content), rows[k], name_col, first_col, last_col)
        idx == [k \in 1..Len(rows) |-> k]
        named == SelectSeq(idx, LAMBDA k : full(k) # <<>>)
        blank == SelectSeq(idx, LAMBDA k : full(k) = <<>>)
    IN  [names |-> [j \in 1..Len(named) |-> full(named[j])],
         skipped_rows |-> [j \in 1..Len(blank) |-> blank[j] + 1]]

NOTICE_ROWS == 10

\* The notice text, kept as its parts: the count, the row numbers listed
\* (skipped[:10]) and whether " ..." is appended.
SkippedNotice(skipped) ==
    [count |-> Len(skipped),
     listed |-> SubSeq(skipped, 1, IF Len(skipped) > NOTICE_ROWS THEN NOTICE_ROWS ELSE Len(skipped)),
     more |-> Len(skipped) > NOTICE_ROWS]

\* Whether build_name_list raises: open() of a given input file fails.
BuildRaises(a) ==
    \/ a.input_txt.path # "" /\ ~a.input_txt.readable
    \/ a.input_csv.path # "" /\ ~a.input_csv.readable

\* The names of every source, concatenated: explicit, line file, tabular.
RawNames(a) ==
    (IF a.name # <<>> THEN load_names_from_args(a.name) ELSE <<>>)
        \o (IF a.input_txt.path # "" THEN load_names_from_txt(a.input_txt.content) ELSE <<>>)
        \o (IF a.input_csv.path # ""
            THEN load_names_from_csv(a.input_csv.content, a.name_column,
                                     a.first_name_column, a.last_name_column).names
            ELSE <<>>)

BuildNotices(a) ==
    IF a.input_csv.path = "" THEN <<>>
    ELSE LET skipped == load_names_from_csv(a.input_csv.content, a.name_column,
                                            a.first_name_column,
                                            a.last_name_column).skipped_rows
         IN  IF skipped # <<>> THEN << SkippedNotice(skipped) >> ELSE <<>>

\* if not args.no_dedupe: names = unique_preserve_order(names)
Dedupe(names, no_dedupe) ==
    IF ~no_dedupe THEN unique_preserve_order(names) ELSE names

build_name_list(a) ==
    [names |-> Dedupe(RawNames(a), a.no_dedupe), notices |-> BuildNotices(a)]

(***************************************************************************)
(* Fetching and classifying one query.                                      *)
(***************************************************************************)
\* What the remote service does with one request: a body, or an exception
\* raised by urlopen / read / decode.
ExcKinds == {"timeout", "connection", "decode"}

Body(page) == [raises |-> FALSE, exc |-> "", body |-> page]

Raise(kind) == [raises |-> TRUE, exc |-> kind, body |-> <<>>]

\* str(exc)
ExcText(kind) ==
    CASE kind = "timeout" -> "The read operation timed out"
      [] kind = "connection" -> "<urlopen error [Errno 111] Connection refused>"
      [] kind = "decode" -> "unknown encoding: x-none"
      [] kind = "encode" -> "'utf-8' codec can't encode character '\\udcff'"

Row(name, status, count, url, entity_str, error) ==
    [query_name |-> name, status |-> status, match_count |-> count,
     search_url |-> url, entity_results |-> entity_str, error |-> error]

\* " | ".join(f"{title} ({url})" if title else url for title, url in entities),
\* kept as the sequence of its entries; the empty string is <<>>.
EntityStr(entities) ==
    [k \in 1..Len(entities) |->
        IF entities[k][1] # <<>> THEN <<entities[k][1], entities[k][2]>>
        ELSE <<entities[k][2]>>]

UNKNOWN_NOTE == "Search page returned without parseable entity links."

\* The extractor consulted before the marker.
ClassifyPage_extract_first(name, search_url, page, max_links) ==
    LET entities == extract_entities(page, max_links)
    IN  IF entities # <<>>
        THEN Row(name, "match", Len(entities), search_url, EntityStr(entities), "")
        ELSE IF MarkerIn(page)
             THEN Row(name, "no_match", 0, search_url, <<>>, "")
             ELSE Row(name, "unknown", 0, search_url, <<>>, UNKNOWN_NOTE)

\* match_count taken from the anchors found, not from the entities kept.
ClassifyPage_count_anchors(name, search_url, page, max_links) ==
    IF MarkerIn(page)
    THEN Row(name, "no_match", 0, search_url, <<>>, "")
    ELSE LET entities == extract_entities(page, max_links)
         IN  IF entities # <<>>
             THEN Row(name, "match", Len(findall(page)), search_url,
                      EntityStr(entities), "")
             ELSE Row(name, "unknown", 0, search_url, <<>>, UNKNOWN_NOTE)

\* The body of the try block after a successful fetch.
ClassifyPage(name, search_url, page, max_links) ==
    IF MarkerIn(page)
    THEN Row(name, "no_match", 0, search_url, <<>>, "")
    ELSE LET entities == extract_entities(page, max_links)
         IN  IF entities # <<>>
             THEN Row(name, "match", Len(entities), search_url, EntityStr(entities), "")
             ELSE Row(name, "unknown", 0, search_url, <<>>, UNKNOWN_NOTE)

\* The handler's row without the exception text.
ErrorRow_no_text(name, kind) ==
    Row(name, "error", 0, SearchUrl(name), <<>>, "")

\* The except handler, for a name quote_plus can encode.
ErrorRow(name, kind) ==
    Row(name, "error", 0, SearchUrl(name), <<>>, ExcText(kind))

\* The handler itself raises when quote_plus(name) does.
HandlerRaises(name) == ~Encodable(name)

\* A row with status unknown is not appended.
AppendRow_skip_unknown(rows, row) ==
    IF row.status = "unknown" THEN rows ELSE Append(rows, row)

\* result_rows.append(...)
AppendRow(rows, row) == Append(rows, row)

\* The test without i < len(names): a sleep follows the last query too.
ShouldSleep_after_last(delay, i, n) == delay > 0

\* if args.sleep > 0 and i < len(names)
ShouldSleep(delay, i, n) == delay > 0 /\ i < n

\* The report written inside the loop, after the first query.
LoopEnds_early(i, n) == TRUE

\* The for loop is exhausted after its last name.
LoopEnds(i, n) == i >= n

\* The check for an empty name list left out.
NoNames_unchecked(names) == FALSE

\* if not names
NoNames(names) == names = <<>>

\* if args.limit > 0: names = names[: args.limit]
ApplyLimit(names, limit) ==
    IF limit > 0
    THEN SubSeq(names, 1, IF limit < Len(names) THEN limit ELSE Len(names))
    ELSE names

REPORT_HEADER ==
    <<"query_name", "status", "match_count", "search_url", "entity_results", "error">>

NoReport == [exists |-> FALSE, opens |-> 0, header |-> <<>>, rows |-> <<>>]

\* open(path, "w"), writerow(header), writerows(rows)
write_results(file, rows) ==
    [exists |-> TRUE, opens |-> file.opens + 1, header |-> REPORT_HEADER, rows |-> rows]

(***************************************************************************)
(* Inputs explored.                                                         *)
(***************************************************************************)
\* argv values of --name
ArgPool == { <<"a">>, <<" ", "A">>, <<" ">>, <<"a", " ", "b">>, <<SURROGATE>> }

TxtFiles ==
    { NoFile, Unreadable("names.txt"),
      File("names.txt", << <<" ", "b", " ">>, <<>> >>) }

CsvContents ==
    { << <<"Vorname", "Nachname">>, <<<<"A">>, <<"b">>>>, << <<>>, <<" ">> >>, <<>>,
         << <<" ">>, <<"a">> >> >>,
      << <<"Vorname", "Nachname">>, << <<>>, <<>> >> >> }

CsvFiles ==
    { NoFile, Unreadable("names.csv") } \cup { File("names.csv", c) : c \in CsvContents }

Args(raw, txt, csv, no_dedupe, limit) ==
    [name |-> raw, input_txt |-> txt, input_csv |-> csv, name_column |-> "",
     first_name_column |-> "Vorname", last_name_column |-> "Nachname",
     no_dedupe |-> no_dedupe, limit |-> limit]

\* Page bodies the service answers with in a batch run.
A1 == Anchor(ENTITY_PREFIX, "Q1", <<"A">>)
A1b == Anchor(ENTITY_PREFIX, "Q1", <<"<b>", "a", "</b>", " ">>)
A2 == Anchor(ENTITY_PREFIX, "Q2", <<"A">>)
A3 == Anchor(ENTITY_PREFIX, "Q2", <<"&#32;">>)

Pages ==
    { << A1, Text(NO_MATCH_MARKER), A2 >>,
      << A1 >>,
      << A1, A1b, A2, A3 >>,
      << Text("Results"), Anchor("/datasets/", "x", <<"A">>) >> }

Responses == { Body(p) : p \in Pages } \cup { Raise(k) : k \in ExcKinds }

\* --max-links and --sleep values of a batch run (--sleep in half seconds)
MaxLinksValues == {0, 1, 3}
SleepValues == {0 - 1, 0, 1}

(***************************************************************************)
(* State.                                                                   *)
(***************************************************************************)
VARIABLES
    pc,           \* where main is: start, fetch, sleep, write, done, exit,
                  \* crashed, interrupted
    args,         \* the options main reads after building the name list
    names,        \* the query sequence (after dedup and limit)
    notices,      \* non-fatal notices of build_name_list
    i,            \* the loop index (1-based)
    result_rows,  \* the batch report being accumulated
    report,       \* the output file
    events,       \* history: the fetch calls and sleeps, in order
    fetched,      \* history: what fetch_search_html did for each query
    exitCode,     \* the process exit status (-1 while running)
    stderr,       \* what was printed to stderr
    fault,        \* why the run crashed: "", input, handler, output
    call,         \* a pure function under test and its arguments
    ret           \* its result

mainVars ==
    <<pc, args, names, notices, i, result_rows, report, events, fetched,
      exitCode, stderr, fault>>

fnVars == <<call, ret>>

\* The GUI (OpenSanctionsBatchGUI) and the worker threads it starts.
VARIABLES
    running,      \* self.running
    status_var,   \* the status label
    threads,      \* the worker threads started, in order: where each is in
                  \* _run_subprocess, its subprocess and the exit code read
    afterQueue,   \* the finish callbacks scheduled by root.after, in order
    dialogs       \* the message boxes open, innermost last

guiVars == <<running, status_var, threads, afterQueue, dialogs>>

vars == <<pc, args, names, notices, i, result_rows, report, events, fetched,
          exitCode, stderr, fault, call, ret,
          running, status_var, threads, afterQueue, dialogs>>

\* __init__: no search running, status Ready.
GuiIdle ==
    /\ running = FALSE
    /\ status_var = "Ready"
    /\ threads = <<>>
    /\ afterQueue = <<>>
    /\ dialogs = <<>>

NoCall == [fn |-> "none"]
NoRet == [done |-> FALSE, value |-> <<>>]

MainInit ==
    /\ pc = "start"
    /\ args \in [max_links : MaxLinksValues, sleep : SleepValues]
    /\ names = <<>>
    /\ notices = <<>>
    /\ i = 0
    /\ result_rows = <<>>
    /\ report = NoReport
    /\ events = <<>>
    /\ fetched = <<>>
    /\ exitCode = 0 - 1
    /\ stderr = <<>>
    /\ fault = ""

Init ==
    /\ MainInit
    /\ call = NoCall
    /\ ret = NoRet
    /\ GuiIdle

(***************************************************************************)
(* main                                                                     *)
(***************************************************************************)
ArgsChoices ==
    { Args(raw, txt, csv, nd, limit) :
        raw \in SeqsUpTo(ArgPool, MaxQueries), txt \in TxtFiles, csv \in CsvFiles,
        nd \in BOOLEAN, limit \in (0 - 1)..MaxQueries }

\* build_name_list raises: the traceback is printed and the process exits 1.
StartInputError ==
    /\ pc = "start"
    /\ \E a \in ArgsChoices : BuildRaises(a)
    /\ pc' = "crashed"
    /\ fault' = "input"
    /\ exitCode' = 1
    /\ stderr' = Append(stderr, "Traceback")
    /\ UNCHANGED <<args, names, notices, i, result_rows, report, events, fetched>>
    /\ UNCHANGED <<fnVars, guiVars>>

\* No names: the diagnostic is printed and main returns 2.
StartNoNames ==
    /\ pc = "start"
    /\ \E a \in ArgsChoices :
        /\ ~BuildRaises(a)
        /\ NoNames(build_name_list(a).names)
        /\ names' = build_name_list(a).names
        /\ notices' = build_name_list(a).notices
    /\ pc' = "exit"
    /\ exitCode' = 2
    /\ stderr' = Append(stderr, "No names provided. Use --name, --input-txt or --input-csv.")
    /\ UNCHANGED <<args, i, result_rows, report, events, fetched, fault>>
    /\ UNCHANGED <<fnVars, guiVars>>

\* Names resolved: the limit is applied and the loop entered.
StartBatch ==
    /\ pc = "start"
    /\ \E a \in ArgsChoices :
        /\ ~BuildRaises(a)
        /\ ~NoNames(build_name_list(a).names)
        /\ Len(ApplyLimit(build_name_list(a).names, a.limit)) <= MaxQueries
        /\ names' = ApplyLimit(build_name_list(a).names, a.limit)
        /\ notices' = build_name_list(a).notices
    /\ pc' = IF names' = <<>> THEN "write" ELSE "fetch"
    /\ i' = IF names' = <<>> THEN 0 ELSE 1
    /\ UNCHANGED <<args, result_rows, report, events, fetched, exitCode, stderr, fault>>
    /\ UNCHANGED <<fnVars, guiVars>>

\* fetch_search_html(name, timeout), given what the service answers
fetch_search_html(name, response) ==
    IF ~Encodable(name) THEN Raise("encode") ELSE response

\* Where main goes after the row of query i is appended.
AfterRow(delay, k, n) ==
    IF ShouldSleep(delay, k, n) THEN "sleep"
    ELSE IF LoopEnds(k, n) THEN "write" ELSE "fetch"

\* One iteration of the loop, up to its sleep test.
Query ==
    /\ pc = "fetch"
    /\ \E response \in Responses :
        LET name == names[i]
            got == fetch_search_html(name, response)
        IN  /\ events' = Append(events, [ev |-> "fetch", arg |-> i])
            /\ fetched' = Append(fetched, got)
            /\ IF got.raises /\ HandlerRaises(name)
               THEN /\ pc' = "crashed"
                    /\ fault' = "handler"
                    /\ exitCode' = 1
                    /\ stderr' = Append(stderr, "Traceback")
                    /\ UNCHANGED <<i, result_rows>>
               ELSE /\ result_rows' =
                        AppendRow(result_rows,
                                  IF got.raises THEN ErrorRow(name, got.exc)
                                  ELSE ClassifyPage(name, SearchUrl(name), got.body,
                                                    args.max_links))
                    /\ pc' = AfterRow(args.sleep, i, Len(names))
                    /\ i' = IF pc' = "fetch" THEN i + 1 ELSE i
                    /\ UNCHANGED <<fault, exitCode, stderr>>
    /\ UNCHANGED <<args, names, notices, report>>
    /\ UNCHANGED <<fnVars, guiVars>>

\* time.sleep(args.sleep)
Sleep ==
    /\ pc = "sleep"
    /\ events' = Append(events, [ev |-> "sleep", arg |-> args.sleep])
    /\ pc' = IF LoopEnds(i, Len(names)) THEN "write" ELSE "fetch"
    /\ i' = IF pc' = "fetch" THEN i + 1 ELSE i
    /\ UNCHANGED <<args, names, notices, result_rows, report, fetched, exitCode,
                   stderr, fault>>
    /\ UNCHANGED <<fnVars, guiVars>>

\* write_results, the notices and the summary; main returns 0.
WriteReport ==
    /\ pc = "write"
    /\ report' = write_results(report, result_rows)
    /\ stderr' = stderr \o notices
    /\ pc' = "done"
    /\ exitCode' = 0
    /\ UNCHANGED <<args, names, notices, i, result_rows, events, fetched, fault>>
    /\ UNCHANGED <<fnVars, guiVars>>

\* open(path, "w") raises (no such directory, no permission).
WriteFails ==
    /\ pc = "write"
    /\ pc' = "crashed"
    /\ fault' = "output"
    /\ exitCode' = 1
    /\ stderr' = Append(stderr, "Traceback")
    /\ UNCHANGED <<args, names, notices, i, result_rows, report, events, fetched>>
    /\ UNCHANGED <<fnVars, guiVars>>

\* KeyboardInterrupt or a kill while the batch is running: it is no
\* Exception, so the handler of the loop does not catch it.
Interrupt ==
    /\ pc \in {"fetch", "sleep", "write"}
    /\ pc' = "interrupted"
    /\ exitCode' = 130
    /\ UNCHANGED <<args, names, notices, i, result_rows, report, events, fetched,
                   stderr, fault>>
    /\ UNCHANGED <<fnVars, guiVars>>

Next ==
    \/ StartInputError
    \/ StartNoNames
    \/ StartBatch
    \/ Query
    \/ Sleep
    \/ WriteReport
    \/ WriteFails
    \/ Interrupt

Spec == Init /\ [][Next]_vars

(***************************************************************************)
(* The pure functions, applied to every input within the bounds.            *)
(***************************************************************************)
\* Names as unique_preserve_order may receive them, untrimmed ones included.
ValuePool ==
    { <<"a">>, <<"A">>, <<" ", "a">>, <<"A", " ">>, <<"a", " ", "b">>,
      <<"a", " ", " ", "b">>, <<"b">> }

ExtractCalls ==
    { [fn |-> "extract_entities", html_text |-> p, max_links |-> m] :
        p \in SeqsUpTo(Tokens, MaxPageLen), m \in (0 - 1)..MaxCap }

UniqueCalls ==
    { [fn |-> "unique_preserve_order", values |-> v] : v \in SeqsUpTo(ValuePool, MaxValues) }

\* Page bodies with the marker as a text run or inside an entity anchor.
MarkerTokens ==
    { Text(NO_MATCH_MARKER), Anchor(ENTITY_PREFIX, "Q1", <<NO_MATCH_MARKER>>) }

ClassifyCalls ==
    { [fn |-> "classify", name |-> <<"a", " ", "b">>, page |-> p, max_links |-> m] :
        p \in SeqsUpTo(Tokens \cup MarkerTokens, MaxBodyLen), m \in MaxLinksValues }

\* CSV files for the loader: a header with a full-name column, then every
\* mix of a few lines, or a long run of blank rows around one named row.
CSV_HEADER == <<"Vorname", "Nachname", "Name">>
BlankRow == << <<>>, <<>>, <<>> >>
NamedRow == << <<"A">>, <<"b">>, <<"a">> >>

CsvLines ==
    { BlankRow, NamedRow, <<>>, << <<" ">> >>, << <<>>, <<"b">>, <<" ">> >> }

RECURSIVE Repeat(_, _)
Repeat(x, n) == IF n = 0 THEN <<>> ELSE <<x>> \o Repeat(x, n - 1)

LoaderCsvContents ==
    { <<CSV_HEADER>> \o rows : rows \in SeqsUpTo(CsvLines, MaxCsvRows) }
        \cup { <<CSV_HEADER>> \o Repeat(BlankRow, p) \o <<NamedRow>> \o Repeat(BlankRow, n - p) :
                  n \in NOTICE_ROWS..(NOTICE_ROWS + MaxExtraRows),
                  p \in 0..NOTICE_ROWS }
        \cup { <<>>, << <<>>, CSV_HEADER, BlankRow >> }

ArgsCsv(csv, name_col, no_dedupe) ==
    [name |-> <<>>, input_txt |-> NoFile, input_csv |-> csv, name_column |-> name_col,
     first_name_column |-> "Vorname", last_name_column |-> "Nachname",
     no_dedupe |-> no_dedupe, limit |-> 0]

BuildCsvCalls ==
    { [fn |-> "build_name_list", a |-> ArgsCsv(File("names.csv", c), col, nd)] :
        c \in LoaderCsvContents, col \in {"", "Name"}, nd \in BOOLEAN }

BuildCalls ==
    { [fn |-> "build_name_list", a |-> Args(raw, txt, csv, nd, 0)] :
        raw \in SeqsUpTo(ArgPool, MaxValues),
        txt \in { f \in TxtFiles : f.path = "" \/ f.readable },
        csv \in { f \in CsvFiles : f.path = "" \/ f.readable },
        nd \in BOOLEAN }

FnInit ==
    /\ MainInit
    /\ args = [max_links |-> 3, sleep |-> 1]
    /\ call \in ExtractCalls \cup UniqueCalls \cup BuildCalls \cup ClassifyCalls
                 \cup BuildCsvCalls
    /\ ret = NoRet
    /\ GuiIdle

CallExtract ==
    /\ call.fn = "extract_entities"
    /\ ~ret.done
    /\ ret' = [done |-> TRUE, value |-> extract_entities(call.html_text, call.max_links)]
    /\ UNCHANGED call
    /\ UNCHANGED <<mainVars, guiVars>>

CallUnique ==
    /\ call.fn = "unique_preserve_order"
    /\ ~ret.done
    /\ ret' = [done |-> TRUE, value |-> unique_preserve_order(call.values)]
    /\ UNCHANGED call
    /\ UNCHANGED <<mainVars, guiVars>>

CallBuild ==
    /\ call.fn = "build_name_list"
    /\ ~ret.done
    /\ ret' = [done |-> TRUE, value |-> build_name_list(call.a)]
    /\ UNCHANGED call
    /\ UNCHANGED <<mainVars, guiVars>>

CallClassify ==
    /\ call.fn = "classify"
    /\ ~ret.done
    /\ ret' = [done |-> TRUE,
               value |-> ClassifyPage(call.name, SearchUrl(call.name), call.page,
                                      call.max_links)]
    /\ UNCHANGED call
    /\ UNCHANGED <<mainVars, guiVars>>

FnNext == CallExtract \/ CallUnique \/ CallBuild \/ CallClassify

SpecFn == FnInit /\ [][FnNext]_vars

(***************************************************************************)
(* The GUI: the Run Search button, the worker thread of a run and the       *)
(* finish callback.  run_search, finish and the closing of a message box    *)
(* are steps of the Tk main thread; Popen, ProcExit, Communicate and After  *)
(* belong to a worker thread and its subprocess and interleave freely.      *)
(***************************************************************************)
\* What _build_command does with the form: a command line, a ValueError of
\* a numeric field, or another exception (the script is missing).
BuildOutcomes == {"ok", "value_error", "missing_script"}

\* The exit status of the batch script.
ExitCodes == {0, 1, 2}

\* proc.returncode before the subprocess has been waited for.
NoCode == 0 - 1

NewThread == [pc |-> "popen", proc |-> "none", code |-> NoCode]

\* if self.running: never taken.
Blocked_never(flag) == FALSE

\* if self.running: showinfo and return.
Blocked(flag) == flag

\* A click on Run Search.  A message box runs the event loop until it is
\* closed, so the handler returns only then; it does nothing after that.
run_search(built) ==
    /\ IF Blocked(running)
       THEN /\ Len(dialogs) < MaxDialogs
            /\ dialogs' = Append(dialogs, "info")
            /\ UNCHANGED <<running, status_var, threads>>
       ELSE IF built # "ok"
       THEN /\ Len(dialogs) < MaxDialogs
            /\ dialogs' = Append(dialogs, "error")
            /\ UNCHANGED <<running, status_var, threads>>
       ELSE /\ Len(threads) < MaxRuns
            /\ running' = TRUE
            /\ status_var' = "Running..."
            /\ threads' = Append(threads, NewThread)
            /\ UNCHANGED dialogs
    /\ UNCHANGED afterQueue
    /\ UNCHANGED <<mainVars, fnVars>>

RunSearch == \E built \in BuildOutcomes : run_search(built)

\* The user closes the innermost message box.
CloseDialog ==
    /\ dialogs # <<>>
    /\ dialogs' = SubSeq(dialogs, 1, Len(dialogs) - 1)
    /\ UNCHANGED <<running, status_var, threads, afterQueue>>
    /\ UNCHANGED <<mainVars, fnVars>>

\* subprocess.Popen in the worker thread: the subprocess starts, or Popen
\* raises and the thread ends there.
Popen(t) ==
    /\ threads[t].pc = "popen"
    /\ \/ threads' = [threads EXCEPT ![t].pc = "communicate", ![t].proc = "alive"]
       \/ threads' = [threads EXCEPT ![t].pc = "raised"]
    /\ UNCHANGED <<running, status_var, afterQueue, dialogs>>
    /\ UNCHANGED <<mainVars, fnVars>>

\* The batch subprocess ends.
ProcExit(t, code) ==
    /\ threads[t].proc = "alive"
    /\ threads' = [threads EXCEPT ![t].proc = "exited", ![t].code = code]
    /\ UNCHANGED <<running, status_var, afterQueue, dialogs>>
    /\ UNCHANGED <<mainVars, fnVars>>

\* proc.communicate() returns once the subprocess has ended; code =
\* proc.returncode.
Communicate(t) ==
    /\ threads[t].pc = "communicate"
    /\ threads[t].proc = "exited"
    /\ threads' = [threads EXCEPT ![t].pc = "after"]
    /\ UNCHANGED <<running, status_var, afterQueue, dialogs>>
    /\ UNCHANGED <<mainVars, fnVars>>

\* self.root.after(0, finish): the callback is queued for the main thread.
After(t) ==
    /\ threads[t].pc = "after"
    /\ threads' = [threads EXCEPT ![t].pc = "scheduled"]
    /\ afterQueue' = Append(afterQueue, t)
    /\ UNCHANGED <<running, status_var, dialogs>>
    /\ UNCHANGED <<mainVars, fnVars>>

\* The event loop (that of a message box too) runs the next callback.
finish ==
    /\ afterQueue # <<>>
    /\ LET t == Head(afterQueue)
       IN  /\ running' = FALSE
           /\ status_var' = IF threads[t].code = 0 THEN "Done" ELSE "Failed"
           /\ threads' = [threads EXCEPT ![t].pc = "finished"]
    /\ afterQueue' = Tail(afterQueue)
    /\ UNCHANGED dialogs
    /\ UNCHANGED <<mainVars, fnVars>>

GuiInit ==
    /\ MainInit
    /\ args = [max_links |-> 3, sleep |-> 1]
    /\ call = NoCall
    /\ ret = NoRet
    /\ GuiIdle

GuiNext ==
    \/ RunSearch
    \/ CloseDialog
    \/ \E t \in 1..Len(threads) : Popen(t)
    \/ \E t \in 1..Len(threads), code \in ExitCodes : ProcExit(t, code)
    \/ \E t \in 1..Len(threads) : Communicate(t)
    \/ \E t \in 1..Len(threads) : After(t)
    \/ finish

SpecGui == GuiInit /\ [][GuiNext]_vars

(***************************************************************************)
(* Properties of the batch loop.                                            *)
(***************************************************************************)
LoopOver == pc \in {"write", "done"} \/ (pc = "crashed" /\ fault = "output")

\* C1: the batch loop appends exactly one row per query, in query order:
\* row k carries the name of query k, the report never runs ahead of or
\* behind the loop index, and when the loop is over the report is as long
\* as the query sequence.
C1_OneRowPerQuery ==
    /\ Len(result_rows) <= Len(names)
    /\ \A k \in 1..Len(result_rows) : result_rows[k].query_name = names[k]
    /\ pc = "fetch" => Len(result_rows) = i - 1
    /\ pc = "sleep" => Len(result_rows) = i
    /\ LoopOver => Len(result_rows) = Len(names)
    /\ pc = "done" => report.rows = result_rows

C1_Witness ==
    /\ pc = "done"
    /\ Len(names) = 2
    /\ names[1] # names[2]
    /\ result_rows[1].status = "unknown"
    /\ result_rows[2].status = "error"

\* C2: a query whose fetch raised has an error row (match_count 0, no
\* entities, a non-empty message) and the run goes on: it is never the
\* handler of the loop that ends the run.
C2_FailedFetchIsolated ==
    /\ fault # "handler"
    /\ \A k \in 1..Len(fetched) :
        fetched[k].raises =>
            /\ k <= Len(result_rows)
            /\ result_rows[k].status = "error"
            /\ result_rows[k].match_count = 0
            /\ result_rows[k].entity_results = <<>>
            /\ result_rows[k].error # ""

\* C3 as stated: the error field of a row is non-empty iff its status is
\* error.
C3_ErrorIffStatusError ==
    \A k \in 1..Len(result_rows) :
        (result_rows[k].error # "") <=> (result_rows[k].status = "error")

\* C3, amended: the error field of a row is empty iff its status is match
\* or no_match; an unknown row carries the fixed diagnostic note and an
\* error row the text of the exception its fetch raised.
C3_ErrorFieldByStatus ==
    \A k \in 1..Len(result_rows) :
        LET r == result_rows[k]
        IN  /\ r.status \in {"match", "no_match", "unknown", "error"}
            /\ (r.error = "") <=> (r.status \in {"match", "no_match"})
            /\ r.status = "unknown" => r.error = UNKNOWN_NOTE
            /\ r.status = "error" =>
                  /\ fetched[k].raises
                  /\ r.error = ExcText(fetched[k].exc)
                  /\ r.error # ""

C3_Witness ==
    /\ Len(result_rows) = 2
    /\ result_rows[1].status = "unknown"
    /\ result_rows[1].error # ""
    /\ result_rows[2].status = "error"

(***************************************************************************)
(* Properties of the pure functions.                                        *)
(***************************************************************************)
Returned(fn) == call.fn = fn /\ ret.done

\* C4: a page body that holds the no-results marker anywhere is classified
\* no_match with match_count 0 and no entities, whatever entity anchors it
\* also holds and whatever the cap.
C4_MarkerPrecedence ==
    (Returned("classify") /\ MarkerIn(call.page)) =>
        /\ ret.value.status = "no_match"
        /\ ret.value.match_count = 0
        /\ ret.value.entity_results = <<>>
        /\ ret.value.error = ""

C4_Witness ==
    /\ Returned("classify")
    /\ MarkerIn(call.page)
    /\ Len(findall(call.page)) = 2
    /\ call.page[1].tag = "a"
    /\ call.max_links = 3
    /\ ret.value.status = "no_match"

\* C5: the list extract_entities returns never has more entries than
\* max_links, for every value --max-links accepts (stated here for the
\* values that can be a count, max_links >= 0).
C5_AtMostMax ==
    (Returned("extract_entities") /\ call.max_links >= 0) =>
        Len(ret.value) <= call.max_links

\* The entities of the entity anchors of a page, in document order.
AnchorEntities(page) ==
    [k \in 1..Len(findall(page)) |-> EntityOf(findall(page)[k])]

\* The positions of the anchors that repeat no earlier anchor's
\* (absolute URL, lower-cased title), in document order.
FirstAnchors(page) ==
    LET m == findall(page)
    IN  SelectSeq([k \in 1..Len(m) |-> k],
                  LAMBDA k : \A j \in 1..(k - 1) : EntityKey(m[j]) # EntityKey(m[k]))

DistinctEntities(page) ==
    [k \in 1..Len(FirstAnchors(page)) |-> EntityOf(findall(page)[FirstAnchors(page)[k]])]

\* s is t with some elements left out, the order kept.
RECURSIVE IsSubsequence(_, _)
IsSubsequence(s, t) ==
    IF s = <<>> THEN TRUE
    ELSE IF t = <<>> THEN FALSE
    ELSE IF Head(s) = Head(t) THEN IsSubsequence(Tail(s), Tail(t))
    ELSE IsSubsequence(s, Tail(t))

\* C6 as stated: markup with more entity anchors than max_links yields
\* exactly max_links entries, in document order (stated here for a maximum
\* of at least 1).
C6_ExactlyMax ==
    (/\ Returned("extract_entities")
     /\ call.max_links >= 1
     /\ Len(findall(call.html_text)) > call.max_links) =>
        /\ Len(ret.value) = call.max_links
        /\ IsSubsequence(ret.value, AnchorEntities(call.html_text))

\* C6, amended: for a maximum of at least 1, markup with more distinct
\* entity anchors (distinct by absolute URL and lower-cased title) than
\* max_links yields exactly max_links entries: the first max_links distinct
\* anchors, in document order.
C6_ExactlyMaxDistinct ==
    (/\ Returned("extract_entities")
     /\ call.max_links >= 1
     /\ Len(DistinctEntities(call.html_text)) > call.max_links) =>
        /\ Len(ret.value) = call.max_links
        /\ ret.value = SubSeq(DistinctEntities(call.html_text), 1, call.max_links)

C6_Witness ==
    /\ Returned("extract_entities")
    /\ call.max_links = 2
    /\ Len(findall(call.html_text)) = 4
    /\ Len(DistinctEntities(call.html_text)) = 3
    /\ Len(ret.value) = 2
    /\ ret.value[2] # AnchorEntities(call.html_text)[2]

\* The first occurrences of a name sequence under equality of the trimmed,
\* lower-cased names.
FirstOccurrences(values) ==
    LET first == SelectSeq([k \in 1..Len(values) |-> k],
                           LAMBDA k : \A j \in 1..(k - 1) :
                                          DedupKey(values[j]) # DedupKey(values[k]))
    IN  [k \in 1..Len(first) |-> values[first[k]]]

KeysOf(values) == { DedupKey(values[k]) : k \in 1..Len(values) }

\* C7: with dedup enabled the query list is the subsequence of first
\* occurrences under trimmed, case-insensitive equality, each key once with
\* its first-seen string; with dedup disabled the names are unchanged.
C7_Dedup ==
    /\ Returned("unique_preserve_order") =>
          /\ ret.value = FirstOccurrences(call.values)
          /\ IsSubsequence(ret.value, call.values)
          /\ KeysOf(ret.value) = KeysOf(call.values)
          /\ Cardinality(KeysOf(ret.value)) = Len(ret.value)
    /\ Returned("build_name_list") =>
          ret.value.names =
              IF call.a.no_dedupe THEN RawNames(call.a)
              ELSE FirstOccurrences(RawNames(call.a))

C7_Witness ==
    /\ Returned("unique_preserve_order")
    /\ Len(call.values) = 3
    /\ call.values[1] = <<" ", "a">>
    /\ call.values[3] = <<"A">>
    /\ ret.value = << <<" ", "a">>, <<"a", " ", "b">> >>

(***************************************************************************)
(* Properties of a whole run.                                               *)
(***************************************************************************)
\* C8: when no name is resolved or an input file cannot be read, the run
\* ends with an exit status other than 0 before any fetch and without the
\* output file being opened or written.
C8_FatalBeforeOutput ==
    ((pc # "start" /\ names = <<>>) \/ fault = "input") =>
        /\ pc \in {"exit", "crashed"}
        /\ exitCode \notin {0 - 1, 0}
        /\ events = <<>>
        /\ fetched = <<>>
        /\ result_rows = <<>>
        /\ report = NoReport

C8_Witness ==
    /\ pc = "exit"
    /\ exitCode = 2
    /\ names = <<>>
    /\ notices # <<>>
    /\ report = NoReport

IsFetch(k) == events[k].ev = "fetch"
IsSleep(k) == events[k].ev = "sleep"

\* Every fetch but the last of a batch is followed by one sleep of the
\* configured delay, and then by the next fetch; no sleep follows the last.
Paced ==
    /\ \A k \in 1..(Len(events) - 1) :
          /\ IsFetch(k) => IsSleep(k + 1)
          /\ IsSleep(k) => IsFetch(k + 1)
    /\ \A k \in 1..Len(events) : IsSleep(k) => events[k].arg = args.sleep
    /\ events # <<>> => IsFetch(1)
    /\ (pc = "fetch" /\ i > 1) => IsSleep(Len(events))
    /\ (pc = "sleep" /\ events # <<>>) => IsFetch(Len(events)) /\ i < Len(names)
    /\ (LoopOver /\ events # <<>>) => IsFetch(Len(events))

\* C9 as stated: the client sleeps between every two consecutive fetches,
\* whatever the outcome of the query, and not after the last.
C9_SleepBetweenFetches == Paced

\* C9, amended: when the configured delay is positive the client sleeps
\* for it between every two consecutive fetches, whatever the outcome of
\* the query, and not after the last; when the delay is zero or negative it
\* never sleeps.
C9_SleepWhenDelayPositive ==
    /\ args.sleep > 0 => Paced
    /\ args.sleep <= 0 => \A k \in 1..Len(events) : IsFetch(k)
    /\ \A k \in 1..Len(events) : IsFetch(k) => events[k].arg <= Len(names)
    /\ Cardinality({ k \in 1..Len(events) : IsFetch(k) }) = Len(fetched)

C9_Witness ==
    /\ pc = "done"
    /\ args.sleep = 1
    /\ Len(names) = 2
    /\ Len(events) = 3
    /\ IsSleep(2)
    /\ result_rows[1].status = "error"
    /\ result_rows[2].status = "no_match"

\* C10: the output file is opened and written at most once, only after
\* every query has been fetched and classified, and then with every row:
\* while a query is unprocessed, and in a run that is interrupted or
\* crashes, there is no report, not even a partial one.
C10_ReportOnceAtEnd ==
    /\ report.opens <= 1
    /\ (report.opens = 1) <=> (pc = "done")
    /\ report.exists <=> (pc = "done")
    /\ pc # "done" => report = NoReport
    /\ pc = "done" =>
          /\ Len(fetched) = Len(names)
          /\ Len(result_rows) = Len(names)
          /\ report.header = REPORT_HEADER
          /\ report.rows = result_rows

C10_Witness ==
    /\ pc = "done"
    /\ Len(names) = 2
    /\ report.opens = 1
    /\ Len(report.rows) = 2
    /\ report.rows[2].status = "match"

\* C11: in every result row match_count is a non-negative integer, 0
\* unless the status is match; in a match row it is the number of entries
\* of the row's entity list, which is at least 1 (and the number of
\* entities the extractor returned for the fetched body).
C11_MatchCount ==
    \A k \in 1..Len(result_rows) :
        LET r == result_rows[k]
        IN  /\ r.match_count \in Nat
            /\ r.status # "match" => r.match_count = 0 /\ r.entity_results = <<>>
            /\ r.status = "match" =>
                  /\ r.match_count = Len(r.entity_results)
                  /\ r.match_count >= 1
                  /\ ~fetched[k].raises
                  /\ r.match_count = Len(extract_entities(fetched[k].body, args.max_links))

C11_Witness ==
    /\ Len(result_rows) = 2
    /\ args.max_links = 3
    /\ result_rows[1].status = "match"
    /\ result_rows[1].match_count = 3
    /\ Len(findall(fetched[1].body)) = 4
    /\ result_rows[2].status = "unknown"
    /\ result_rows[2].match_count = 0

\* The tabular input of a name-list call that was loaded: its records, the
\* full name of each, and the row numbers (header = row 1, the records
\* numbered on from 2) of the records with a blank name.
LoadedCsv == Returned("build_name_list") /\ call.a.input_csv.path # "" /\ ~BuildRaises(call.a)

RecordName(a, k) ==
    CsvFullName(CsvHeader(a.input_csv.content), CsvRows(a.input_csv.content)[k],
                a.name_column, a.first_name_column, a.last_name_column)

BlankRowNumbers(a) ==
    { k + 1 : k \in { j \in 1..Len(CsvRows(a.input_csv.content)) : RecordName(a, j) = <<>> } }

\* The names of the sources read before the tabular input.
EarlierNames(a) ==
    (IF a.name # <<>> THEN load_names_from_args(a.name) ELSE <<>>)
        \o (IF a.input_txt.path # "" THEN load_names_from_txt(a.input_txt.content) ELSE <<>>)

NamedRecords(a) ==
    LET named == SelectSeq([k \in 1..Len(CsvRows(a.input_csv.content)) |-> k],
                           LAMBDA k : RecordName(a, k) # <<>>)
    IN  [j \in 1..Len(named) |-> RecordName(a, named[j])]

\* C12 as stated: the row number of every row with a blank name appears in
\* the skipped-rows notice.
C12_EverySkippedRowListed ==
    LoadedCsv =>
        \A n \in BlankRowNumbers(call.a) :
            \E k \in 1..Len(ret.value.notices) :
                \E j \in 1..Len(ret.value.notices[k].listed) :
                    ret.value.notices[k].listed[j] = n

\* C12: every record with a blank name is left out of the query list and
\* the load goes on with the records after it; when there is such a record
\* there is one skipped-rows notice, which counts all of them and lists, in
\* increasing order, the row numbers of the first ten (header = row 1, the
\* records the reader yields numbered on from 2), marked as cut short when
\* there are more; without such a record there is no notice.
C12_SkippedRowsNotice ==
    LoadedCsv =>
        LET a == call.a
            blank == BlankRowNumbers(a)
            named == EarlierNames(a) \o NamedRecords(a)
            out == ret.value.notices
        IN  /\ ret.value.names = IF a.no_dedupe THEN named ELSE FirstOccurrences(named)
            /\ \A k \in 1..Len(ret.value.names) : ret.value.names[k] # <<>>
            /\ blank = {} => out = <<>>
            /\ blank # {} =>
                  /\ Len(out) = 1
                  /\ out[1].count = Cardinality(blank)
                  /\ out[1].more = (Cardinality(blank) > NOTICE_ROWS)
                  /\ { out[1].listed[j] : j \in 1..Len(out[1].listed) }
                        = { n \in blank : Cardinality({ m \in blank : m < n }) < NOTICE_ROWS }
                  /\ \A j \in 1..(Len(out[1].listed) - 1) :
                        out[1].listed[j] < out[1].listed[j + 1]

C12_Witness ==
    /\ LoadedCsv
    /\ Len(CsvRows(call.a.input_csv.content)) = NOTICE_ROWS + 2
    /\ RecordName(call.a, 3) # <<>>
    /\ ret.value.names = << <<"A", " ", "b">> >>
    /\ Len(ret.value.notices) = 1
    /\ ret.value.notices[1].count = NOTICE_ROWS + 1
    /\ ret.value.notices[1].more
    /\ ret.value.notices[1].listed[1] = 2
    /\ ret.value.notices[1].listed[3] = 5

(***************************************************************************)
(* Properties of the GUI.                                                   *)
(***************************************************************************)
AliveProcs == { t \in 1..Len(threads) : threads[t].proc = "alive" }

\* The runs whose finish callback has not run.
OpenRuns == { t \in 1..Len(threads) : threads[t].pc # "finished" }

\* C13: at most one subprocess is alive at a time; the flag is set exactly
\* while the run started last has not had its finish callback run, and
\* every earlier run has had it, so a click while the flag is set starts
\* no thread; a subprocess belongs to a thread past Popen, a callback is
\* scheduled and run only after the subprocess has ended, and the status
\* shows the outcome of the run that cleared the flag.
C13_RunGuard ==
    /\ Cardinality(AliveProcs) <= 1
    /\ OpenRuns \subseteq {Len(threads)}
    /\ running <=> OpenRuns # {}
    /\ \A t \in 1..Len(threads) :
          /\ threads[t].proc = "alive" => threads[t].pc = "communicate" /\ running
          /\ threads[t].pc \in {"after", "scheduled", "finished"} =>
                threads[t].proc = "exited" /\ threads[t].code \in ExitCodes
          /\ threads[t].pc \in {"popen", "raised"} => threads[t].proc = "none"
    /\ \A k \in 1..Len(afterQueue) :
          afterQueue[k] = Len(threads) /\ threads[afterQueue[k]].pc = "scheduled"
    /\ Len(afterQueue) <= 1
    /\ ~running /\ threads # <<>> =>
          status_var = IF threads[Len(threads)].code = 0 THEN "Done" ELSE "Failed"
    /\ \A k \in 1..Len(dialogs) : dialogs[k] = "info" => threads # <<>>

\* A second run is alive after the first was finished, with a click
\* refused while a run was going on still on the screen.
C13_Witness ==
    /\ Len(threads) = 2
    /\ threads[1].pc = "finished"
    /\ threads[2].proc = "alive"
    /\ running
    /\ dialogs = <<"info">>

=============================================================================
